---- MODULE Spec2Model ----
(***************************************************************************)
(* Model of the LOKI scanner (src/src/main.rs): start-up (hash IOC store,  *)
(* YARA rule set), the process sweep and the file system walk.             *)
(* Strings the code inspects character by character (hash values, file     *)
(* names, IOC lines) are sequences of one-character strings.               *)
(***************************************************************************)
EXTENDS Integers, Sequences, FiniteSets, TLC

\* ---------------------------------------------------------------- bounds
MaxLines == 2        \* lines of a short hash IOC file
MaxRuleFiles == 2    \* entries of the YARA signature folder
MaxProcs == 2        \* processes of one sweep
MaxEntries == 2      \* entries yielded by one walk

\* ------------------------------------------------------- program constants
MatchCap == 100      \* ArrayVec::<GenMatch, 100>
HashScore == 100     \* HashIOC.score
YaraFileScore == 60  \* YaraMatch.score set by scan_file
YaraProcScore == 75  \* GenMatch.score set by scan_processes
U16 == 65536         \* width of the u16 score fields

\* ------------------------------------------------------------- strings
Rep(c, n) == [i \in 1..n |-> c]

\* char::to_ascii_lowercase on the characters it changes: 'A'..='Z'
UpperToLower ==
    LET upper == <<"A", "B", "C", "D", "E", "F", "G", "H", "I", "J", "K", "L", "M",
                   "N", "O", "P", "Q", "R", "S", "T", "U", "V", "W", "X", "Y", "Z">>
        lower == <<"a", "b", "c", "d", "e", "f", "g", "h", "i", "j", "k", "l", "m",
                   "n", "o", "p", "q", "r", "s", "t", "u", "v", "w", "x", "y", "z">>
    IN [c \in {upper[i] : i \in DOMAIN upper} |->
            lower[CHOOSE i \in DOMAIN upper : upper[i] = c]]

\* str::to_ascii_lowercase
to_ascii_lowercase(s) ==
    [i \in DOMAIN s |-> IF s[i] \in DOMAIN UpperToLower THEN UpperToLower[s[i]] ELSE s[i]]

\* str::starts_with("#")
starts_with_hash(s) == Len(s) > 0 /\ s[1] = "#"

\* position of the last occurrence of character c in s, 0 when absent
LastIndexOf(s, c) ==
    IF \E i \in DOMAIN s : s[i] = c
    THEN CHOOSE i \in DOMAIN s : s[i] = c /\ \A j \in DOMAIN s : s[j] = c => j <= i
    ELSE 0

\* position of the first occurrence of character c in s, 0 when absent
FirstIndexOf(s, c) ==
    IF \E i \in DOMAIN s : s[i] = c
    THEN CHOOSE i \in DOMAIN s : s[i] = c /\ \A j \in DOMAIN s : s[j] = c => j >= i
    ELSE 0

\* entry.path().extension().unwrap_or_default(): the part of the file name
\* after its last dot, without the dot; empty when the name has no dot or
\* its only dot is the leading one.
path_extension(name) ==
    LET k == LastIndexOf(name, ".")
    IN IF k <= 1 THEN <<>> ELSE SubSeq(name, k + 1, Len(name))

REL_EXTS ==
    { <<".", "e", "x", "e">>, <<".", "d", "l", "l">>, <<".", "b", "a", "t">>,
      <<".", "p", "s", "1">>, <<".", "a", "s", "p">>, <<".", "a", "s", "p", "x">>,
      <<".", "j", "s", "p">>, <<".", "j", "s", "p", "x">>, <<".", "p", "h", "p">>,
      <<".", "p", "l", "i", "s", "t">>, <<".", "s", "h">>, <<".", "v", "b", "s">>,
      <<".", "j", "s">>, <<".", "d", "m", "p">> }

FILE_TYPES ==
    { "Debian Binary Package", "Executable and Linkable Format",
      "Google Chrome Extension", "ISO 9660", "Microsoft Compiled HTML Help",
      "PCAP Dump", "PCAP Next Generation Dump", "Windows Executable",
      "Windows Shortcut", "ZIP" }

\* ------------------------------------------------------ hash IOC store
get_hash_type(hash_value) ==
    CASE Len(hash_value) = 32 -> "Md5"
      [] Len(hash_value) = 40 -> "Sha1"
      [] Len(hash_value) = 64 -> "Sha256"
      [] OTHER -> "Unknown"

\* The CSV reader built by ReaderBuilder::new().delimiter(b';').flexible(true):
\* quoting is on with the quote character '"', a doubled quote inside a
\* quoted field stands for one quote, and a quoted field may hold the
\* delimiter and line breaks. The file is a sequence of lines, each ended by
\* a line terminator. The reader is in one of the states StartRecord,
\* StartField, InField, InQuotedField and InDoubleEscapedQuote (just after a
\* quote met inside a quoted field); record holds the fields of the record
\* that are complete and field the text of the one being read.
StartRecord == [state |-> "StartRecord", record |-> <<>>, field |-> <<>>]

\* position of the first occurrence of character c in s at or after
\* position p, 0 when absent
IndexFrom(s, c, p) ==
    LET k == FirstIndexOf(SubSeq(s, p, Len(s)), c)
    IN IF k = 0 THEN 0 ELSE p + k - 1

\* the reader rd after the characters of line from position p on, the line
\* terminator not included
RECURSIVE ReadFields(_, _, _)
ReadFields(line, p, rd) ==
    IF p > Len(line) THEN rd
    ELSE CASE rd.state = "StartRecord" ->
                ReadFields(line, p, [rd EXCEPT !.state = "StartField"])
           [] rd.state = "StartField" ->
                IF line[p] = "\""
                THEN ReadFields(line, p + 1, [rd EXCEPT !.state = "InQuotedField"])
                ELSE ReadFields(line, p, [rd EXCEPT !.state = "InField"])
           [] rd.state = "InField" ->
                LET k == IndexFrom(line, ";", p)
                IN IF k = 0
                   THEN [rd EXCEPT !.field = rd.field \o SubSeq(line, p, Len(line))]
                   ELSE ReadFields(line, k + 1,
                            [state |-> "StartField",
                             record |-> Append(rd.record, rd.field \o SubSeq(line, p, k - 1)),
                             field |-> <<>>])
           [] rd.state = "InQuotedField" ->
                LET q == IndexFrom(line, "\"", p)
                IN IF q = 0
                   THEN [rd EXCEPT !.field = rd.field \o SubSeq(line, p, Len(line))]
                   ELSE ReadFields(line, q + 1,
                            [rd EXCEPT !.state = "InDoubleEscapedQuote",
                                       !.field = rd.field \o SubSeq(line, p, q - 1)])
           [] rd.state = "InDoubleEscapedQuote" ->
                IF line[p] = "\""
                THEN ReadFields(line, p + 1,
                        [rd EXCEPT !.state = "InQuotedField", !.field = Append(rd.field, "\"")])
                ELSE IF line[p] = ";"
                THEN ReadFields(line, p + 1,
                        [state |-> "StartField", record |-> Append(rd.record, rd.field),
                         field |-> <<>>])
                ELSE ReadFields(line, p + 1,
                        [rd EXCEPT !.state = "InField", !.field = Append(rd.field, line[p])])

\* one line and its terminator: inside a quoted field the line break is
\* part of the field; an empty line between records is skipped; otherwise
\* the terminator ends the field and the record
ReadLine(line, acc) ==
    LET rd == ReadFields(line, 1, acc.reader)
    IN IF rd.state = "InQuotedField"
       THEN [acc EXCEPT !.reader = [rd EXCEPT !.field = Append(rd.field, "\n")]]
       ELSE IF rd.state = "StartRecord" THEN acc
       ELSE [rows |-> Append(acc.rows, Append(rd.record, rd.field)),
             reader |-> StartRecord]

\* the lines of the file read in order from acc
RECURSIVE ReadLines(_, _)
ReadLines(lines, acc) ==
    IF Len(lines) = 0 THEN acc
    ELSE IF Len(lines) = 1 THEN ReadLine(lines[1], acc)
    ELSE LET m == Len(lines) \div 2
             mid == ReadLines(SubSeq(lines, 1, m), acc)
         IN IF mid = acc THEN ReadLines(SubSeq(lines, m + 1, Len(lines)), acc)
            ELSE ReadLines(SubSeq(lines, m + 1, Len(lines)), mid)

\* the rows the CSV reader parses; the end of the file ends a quoted field
\* that is still open, and with it the last record
CsvRows(lines) ==
    LET end == ReadLines(lines, [rows |-> <<>>, reader |-> StartRecord])
    IN IF end.reader.state = "InQuotedField"
       THEN Append(end.rows, Append(end.reader.record, end.reader.field))
       ELSE end.rows

\* reader.records(): the reader is built with its default has_headers
\* setting, so the first row is taken as the header and not yielded
CsvRecords(lines) ==
    LET rows == CsvRows(lines)
    IN IF rows = <<>> THEN <<>> ELSE Tail(rows)

\* the two conditions under which the loop over the records pushes one
IsPushed(record) == Len(record) > 1 /\ ~starts_with_hash(record[1])

\* the loop over the records: one HashIOC per pushed record, in file order
PushRecords(records) ==
    LET pushed == SelectSeq(records, IsPushed)
    IN [i \in 1..Len(pushed) |->
            [hash_type |-> get_hash_type(pushed[i][1]),
             hash_value |-> to_ascii_lowercase(pushed[i][1]),
             description |-> pushed[i][2],
             score |-> HashScore]]

\* initialize_hash_iocs on a file that could be read
initialize_hash_iocs(lines) == PushRecords(CsvRecords(lines))

\* ------------------------------------------------------------ YARA rules
\* A rule source is a sequence of rule declarations: n > 0 declares a
\* well-formed rule with identifier n, 0 is text the compiler rejects.
\* compile_yara_rules: the parse fails on rejected text and on a rule
\* identifier declared twice.
compile_yara_rules(rules_string) ==
    LET ok == /\ \A i \in DOMAIN rules_string : rules_string[i] # 0
              /\ \A i, j \in DOMAIN rules_string :
                    rules_string[i] = rules_string[j] => i = j
    IN [ok |-> ok, rules |-> IF ok THEN rules_string ELSE <<>>]

\* fs::read_dir on a folder that can be listed: its entries in order
read_dir(dir) ==
    [i \in 1..(Len(dir.files) * dir.copies) |-> dir.files[((i - 1) % Len(dir.files)) + 1]]

\* the filter on the folder's entries: extension == "yar"
IsYarFile(file) == path_extension(file.name) = <<"y", "a", "r">>

\* u16 addition: a sum that does not fit panics in a build with overflow
\* checks and wraps in a build without them
AddU16(a, b, overflow_checks) ==
    IF a + b < U16 THEN [panicked |-> FALSE, value |-> a + b]
    ELSE IF overflow_checks THEN [panicked |-> TRUE, value |-> 0]
    ELSE [panicked |-> FALSE, value |-> (a + b) % U16]

\* one entry of the folder: the filter on its extension and, for a rule
\* file, one turn of the loop "Test compile each rule"; count is a u16
TestCompileFile(file, all_rules, count, overflow_checks) ==
    LET next == AddU16(count, 1, overflow_checks)
    IN IF ~IsYarFile(file)
       THEN [panicked |-> FALSE, all_rules |-> all_rules, count |-> count]
       ELSE IF ~file.readable
       THEN [panicked |-> TRUE, all_rules |-> all_rules, count |-> count]
       ELSE IF compile_yara_rules(file.src).ok
       THEN [panicked |-> next.panicked, all_rules |-> all_rules \o file.src,
             count |-> IF next.panicked THEN count ELSE next.value]
       ELSE [panicked |-> FALSE, all_rules |-> all_rules, count |-> count]

\* the loop over the filtered files, in order: all_rules and count after
\* it, or the panic of the expect on a rule file that cannot be read or of
\* count += 1
RECURSIVE TestCompileEach(_, _, _, _)
TestCompileEach(files, all_rules, count, overflow_checks) ==
    IF Len(files) = 0 THEN [panicked |-> FALSE, all_rules |-> all_rules, count |-> count]
    ELSE IF Len(files) = 1
         THEN TestCompileFile(files[1], all_rules, count, overflow_checks)
    ELSE LET m == Len(files) \div 2
             mid == TestCompileEach(SubSeq(files, 1, m), all_rules, count, overflow_checks)
         IN IF mid.panicked THEN mid
            ELSE TestCompileEach(SubSeq(files, m + 1, Len(files)),
                                 mid.all_rules, mid.count, overflow_checks)

\* initialize_rules with a composed rule set that fails to compile taken as
\* an empty rule set instead of ending main
initialize_rules_lenient(files, overflow_checks) ==
    LET each == TestCompileEach(files, <<>>, 0, overflow_checks)
        compiled_all_rules == compile_yara_rules(each.all_rules)
    IN [panicked |-> each.panicked,
        all_rules |-> each.all_rules,
        count |-> each.count,
        rules |-> IF each.panicked THEN <<>> ELSE compiled_all_rules.rules]

\* initialize_rules on a signature folder that could be listed
initialize_rules(files, overflow_checks) ==
    LET each == TestCompileEach(files, <<>>, 0, overflow_checks)
        compiled_all_rules == compile_yara_rules(each.all_rules)
    IN IF each.panicked
       THEN [panicked |-> TRUE, all_rules |-> each.all_rules, count |-> each.count,
             rules |-> <<>>]
       ELSE [panicked |-> ~compiled_all_rules.ok, all_rules |-> each.all_rules,
             count |-> each.count, rules |-> compiled_all_rules.rules]

\* ------------------------------------------------------------- matching
Log(level, msg) == [level |-> level, msg |-> msg]

\* the diagnostic of an access error: error level when show_access_errors
AccessErrorLog(scan_config, msg) ==
    IF scan_config.show_access_errors THEN <<Log("error", msg)>> ELSE <<Log("debug", msg)>>

\* ArrayVec::is_full
is_full(matches) == Len(matches) = MatchCap

\* the digests of a file's content (hex strings of 32, 40 and 64 characters)
md5_compute(content) == Rep(IF content = "c1" THEN "a" ELSE "c", 32)
sha1_compute(content) == Rep(IF content = "c1" THEN "b" ELSE "d", 40)
sha256_compute(content) == Rep(IF content = "c1" THEN "e" ELSE "f", 64)

\* the match on hash_ioc.hash_type inside the loop over the hash IOCs
HashCompare(hash_ioc, content) ==
    CASE hash_ioc.hash_type = "Md5" -> hash_ioc.hash_value = md5_compute(content)
      [] hash_ioc.hash_type = "Sha1" -> hash_ioc.hash_value = sha1_compute(content)
      [] hash_ioc.hash_type = "Sha256" -> hash_ioc.hash_value = sha256_compute(content)
      [] OTHER -> FALSE

\* HashGenMatch with a score ten times the indicator's
HashGenMatchWeighted(hash_ioc) ==
    [message |-> <<"HASH match with IOC HASH: ", hash_ioc.hash_value,
                   " DESC: ", hash_ioc.description>>,
     score |-> hash_ioc.score * 10]

HashGenMatch(hash_ioc) ==
    [message |-> <<"HASH match with IOC HASH: ", hash_ioc.hash_value,
                   " DESC: ", hash_ioc.description>>,
     score |-> hash_ioc.score]

\* one turn of "Compare hashes with hash IOCs" on the loop's state st:
\* hash_match is declared before the loop and only ever set; the insert is
\* not guarded by is_full and panics on a full ArrayVec, which ends the loop.
HashStep(hash_ioc, content, st) ==
    LET hm == st.hash_match
              \/ (~is_full(st.matches) /\ HashCompare(hash_ioc, content))
    IN IF st.panicked THEN st
       ELSE IF ~hm THEN st
       ELSE IF is_full(st.matches)
            THEN [st EXCEPT !.hash_match = hm, !.panicked = TRUE]
       ELSE [st EXCEPT !.hash_match = hm,
                       !.matches = Append(st.matches, HashGenMatch(hash_ioc))]

\* the loop over hash_iocs.iter(), in order, from the state st
RECURSIVE HashLoop(_, _, _)
HashLoop(hash_iocs, content, st) ==
    IF Len(hash_iocs) = 0 THEN st
    ELSE IF Len(hash_iocs) = 1 THEN HashStep(hash_iocs[1], content, st)
    ELSE LET m == Len(hash_iocs) \div 2
             mid == HashLoop(SubSeq(hash_iocs, 1, m), content, st)
         IN IF mid.panicked THEN mid
            ELSE HashLoop(SubSeq(hash_iocs, m + 1, Len(hash_iocs)), content, mid)

\* scan_file: results is the Result of scanner.scan_fd; results.iter()
\* yields the Ok value (the whole vector of matching rules) once, or nothing
scan_file(results, scan_config) ==
    [log |-> (IF ~results.ok /\ scan_config.show_access_errors
              THEN <<Log("error", "Cannot access file descriptor")>> ELSE <<>>)
             \o (IF results.ok /\ Len(results.rules) > 0
                 THEN <<Log("debug", "MATCH FOUND")>> ELSE <<>>),
     yara_matches |->
        IF results.ok /\ Len(results.rules) > 0
        THEN << [rulename |-> results.rules[1], score |-> YaraFileScore] >>
        ELSE <<>>]

\* one turn of the loop of scan_path over the matches scan_file returned
YaraStep(ymatch, sample_matches) ==
    IF ~is_full(sample_matches)
    THEN Append(sample_matches,
                [message |-> <<"YARA match with rule ", ymatch.rulename>>,
                 score |-> ymatch.score])
    ELSE sample_matches

\* the loop of scan_path over yara_matches.iter(), in order
RECURSIVE YaraLoop(_, _)
YaraLoop(yara_matches, sample_matches) ==
    IF Len(yara_matches) = 0 THEN sample_matches
    ELSE IF Len(yara_matches) = 1 THEN YaraStep(yara_matches[1], sample_matches)
    ELSE LET m == Len(yara_matches) \div 2
             mid == YaraLoop(SubSeq(yara_matches, 1, m), sample_matches)
         IN IF is_full(mid) THEN mid
            ELSE YaraLoop(SubSeq(yara_matches, m + 1, Len(yara_matches)), mid)

\* one turn of the loop of scan_processes over the matching rules
ProcStep(ymatch, proc_matches) ==
    IF ~is_full(proc_matches)
    THEN Append(proc_matches,
                [message |-> <<"YARA match with rule ", ymatch>>,
                 score |-> YaraProcScore])
    ELSE proc_matches

\* the loop of scan_processes over yara_matches.unwrap_or_default().iter()
RECURSIVE ProcLoop(_, _)
ProcLoop(rules, proc_matches) ==
    IF Len(rules) = 0 THEN proc_matches
    ELSE IF Len(rules) = 1 THEN ProcStep(rules[1], proc_matches)
    ELSE LET m == Len(rules) \div 2
             mid == ProcLoop(SubSeq(rules, 1, m), proc_matches)
         IN IF is_full(mid) THEN mid
            ELSE ProcLoop(SubSeq(rules, m + 1, Len(rules)), mid)

\* "Calculate a total score": total_score += sm.score over the matches,
\* in u16 arithmetic;
\* the scores are not negative, so some partial sum overflows exactly when
\* the sum of a half or of the two halves does
RECURSIVE TotalScore(_, _)
TotalScore(sample_matches, overflow_checks) ==
    IF Len(sample_matches) = 0 THEN [panicked |-> FALSE, value |-> 0]
    ELSE IF Len(sample_matches) = 1
         THEN AddU16(0, sample_matches[1].score, overflow_checks)
    ELSE LET m == Len(sample_matches) \div 2
             first == TotalScore(SubSeq(sample_matches, 1, m), overflow_checks)
             second == TotalScore(SubSeq(sample_matches, m + 1, Len(sample_matches)),
                                  overflow_checks)
         IN IF first.panicked THEN first
            ELSE IF second.panicked THEN second
            ELSE AddU16(first.value, second.value, overflow_checks)

\* ---------------------------------------------------- one scanned item
NoResult ==
    [outcome |-> "none", opened |-> FALSE, mapped |-> FALSE, hashed |-> FALSE,
     engine |-> FALSE, matches |-> <<>>, finding |-> FALSE, total_score |-> 0,
     log |-> <<>>]

\* the condition under which scan_path goes on past "Skip certain file types"
TypeAdmitted(extension, file_format_desc, scan_config) ==
    ~( /\ file_format_desc \notin FILE_TYPES
       /\ extension \notin REL_EXTS
       /\ ~scan_config.scan_all_types )

\* TooBig with the comparison off by one: a file of exactly max_file_size
\* is skipped
TooBigInclusive(realsize, scan_config) == realsize >= scan_config.max_file_size

\* the condition of "Skip big files"
TooBig(realsize, scan_config) == realsize > scan_config.max_file_size

\* "Scan Results": the warn line is the Finding; an overflow panic of the
\* sum comes before it
Report(r, overflow_checks) ==
    LET total_score == TotalScore(r.matches, overflow_checks)
    IN IF Len(r.matches) > 0
       THEN IF total_score.panicked THEN [r EXCEPT !.outcome = "panic"]
            ELSE [r EXCEPT !.outcome = "reported", !.finding = TRUE,
                           !.total_score = total_score.value,
                           !.log = r.log \o <<Log("warn", "File match found")>>]
       ELSE [r EXCEPT !.outcome = "clean"]

\* scan_path from "IOC Matching" on, for a file that is opened and mapped
MatchAndReport(entry, scan_config, hash_iocs, r, overflow_checks) ==
    LET hashes == HashLoop(hash_iocs, entry.content,
                           [hash_match |-> FALSE, matches |-> <<>>, panicked |-> FALSE])
        rh == [r EXCEPT !.hashed = TRUE, !.matches = hashes.matches,
                        !.log = r.log \o <<Log("trace", "Hashes of FILE")>>]
        yara == scan_file(entry.results, scan_config)
    IN IF hashes.panicked THEN [rh EXCEPT !.outcome = "panic"]
       ELSE Report([rh EXCEPT !.engine = TRUE,
                              !.matches = YaraLoop(yara.yara_matches, rh.matches),
                              !.log = rh.log \o <<Log("trace", "Passing external variables")>>
                                        \o yara.log],
                   overflow_checks)

\* the body of the loop of scan_path for one entry of the walk
ScanEntry(entry, scan_config, hash_iocs, overflow_checks) ==
    LET extension == path_extension(entry.name)
        admitted == [NoResult EXCEPT !.log = <<Log("debug", "Scanning file")>>]
    IN IF ~entry.is_file
       THEN [NoResult EXCEPT !.outcome = "not_file",
                             !.log = <<Log("trace", "Skipped element that isn't a file")>>]
       ELSE IF entry.fault = "symlink_metadata"
       THEN [NoResult EXCEPT !.outcome = "panic"]
       ELSE IF TooBig(entry.realsize, scan_config)
       THEN [NoResult EXCEPT !.outcome = "too_big",
                             !.log = <<Log("trace", "Skipping file due to size")>>]
       ELSE IF entry.fault = "extension"
       THEN [NoResult EXCEPT !.outcome = "panic"]
       ELSE IF ~TypeAdmitted(extension, entry.format, scan_config)
       THEN [NoResult EXCEPT !.outcome = "type_skipped",
                             !.log = <<Log("trace", "Skipping file due to extension or type")>>]
       ELSE IF entry.fault = "metadata"
       THEN [admitted EXCEPT !.outcome = "panic"]
       ELSE IF entry.fault = "open"
       THEN [admitted EXCEPT !.outcome = "open_failed",
                             !.log = admitted.log \o AccessErrorLog(scan_config, "Cannot access file")]
       ELSE IF entry.fault = "mmap"
       THEN [admitted EXCEPT !.outcome = "panic", !.opened = TRUE]
       ELSE MatchAndReport(entry, scan_config, hash_iocs,
                           [admitted EXCEPT !.opened = TRUE, !.mapped = TRUE],
                           overflow_checks)

\* ScanProcess with unwrap() in place of unwrap_or_default(): an engine
\* error ends main
ScanProcessUnwrap(process, scan_config) ==
    IF process.results.ok
    THEN LET proc_matches == ProcLoop(process.results.rules, <<>>)
         IN [NoResult EXCEPT
                !.outcome = IF Len(proc_matches) > 0 THEN "reported" ELSE "clean",
                !.engine = TRUE,
                !.matches = proc_matches,
                !.finding = Len(proc_matches) > 0]
    ELSE [NoResult EXCEPT !.outcome = "panic", !.engine = TRUE]

\* the body of the loop of scan_processes for one process
ScanProcess(process, scan_config) ==
    LET proc_matches ==
            ProcLoop(IF process.results.ok THEN process.results.rules ELSE <<>>, <<>>)
        log == <<Log("debug", "Scanning process"), Log("debug", "Scan result")>>
               \o (IF process.results.ok THEN <<>>
                   ELSE AccessErrorLog(scan_config, "Error while scanning process memory"))
    IN [NoResult EXCEPT
            !.outcome = IF Len(proc_matches) > 0 THEN "reported" ELSE "clean",
            !.engine = TRUE,
            !.matches = proc_matches,
            !.finding = Len(proc_matches) > 0,
            !.log = log \o (IF Len(proc_matches) > 0
                            THEN <<Log("warn", "Process with matches found")>> ELSE <<>>)]

\* --------------------------------------------------------------- inputs
ArgMaxFileSize == 2  \* the --max-file-size of the modelled runs

\* lines of the hash IOC file
LineSha256 == Rep("E", 64) \o <<";", "t", "e", "s", "t">>
LineMd5 == Rep("a", 32) \o <<";", "m">>
LineUnknown == <<"a", "G", ";", "u">>
LineComment == <<"#", "x", ";", "c">>
LineShort == <<"a", "b">>
LineEmpty == <<>>
\* lines with quoted fields: a quoted SHA256 value, a quoted value holding
\* the delimiter, and a quoted value that goes on to the next line
LineQuoted == <<"\"">> \o Rep("E", 64) \o <<"\"", ";", "q">>
LineQuotedDelimiter == <<"\"", "a", ";", "b", "\"", ";", "d">>
LineQuotedOpen == <<"\"", "a">>
LineQuotedClose == <<"b", "\"", ";", "c">>
IocLines == {LineSha256, LineMd5, LineUnknown, LineComment, LineShort, LineEmpty}

ShortIocFiles == UNION { [1..n -> IocLines] : n \in 0..MaxLines }
\* a header, one SHA256 indicator and n further indicators
LongIocFile(n) == <<LineComment, LineSha256>> \o Rep(LineUnknown, n)
LongIocFiles == { LongIocFile(n) : n \in {1, MatchCap - 1, MatchCap} }
HeaderedIocFile == <<LineComment, LineSha256>>
QuotedIocFiles ==
    { <<LineComment, LineQuoted>>,
      <<LineComment, LineQuotedDelimiter>>,
      <<LineComment, LineQuotedOpen, LineQuotedClose>>,
      <<LineQuotedOpen, LineQuotedClose, LineSha256>> }

IocFileInputs ==
    {[readable |-> FALSE, lines |-> <<>>]}
    \cup {[readable |-> TRUE, lines |-> l] : l \in ShortIocFiles \cup LongIocFiles \cup QuotedIocFiles}

\* entries of the signature folder
RuleFile(name, readable, src) == [name |-> name, readable |-> readable, src |-> src]
RuleFiles ==
    { RuleFile(<<"a", ".", "y", "a", "r">>, TRUE, <<1>>),
      RuleFile(<<"b", ".", "y", "a", "r">>, TRUE, <<2>>),
      RuleFile(<<"c", ".", "y", "a", "r">>, TRUE, <<1>>),
      RuleFile(<<"d", ".", "y", "a", "r">>, TRUE, <<0>>),
      RuleFile(<<"e", ".", "t", "x", "t">>, TRUE, <<0>>),
      RuleFile(<<"f", ".", "y", "a", "r">>, FALSE, <<>>) }
BigRuleDir == << RuleFile(<<"g", ".", "y", "a", "r">>, TRUE, [i \in 1..(MatchCap + 1) |-> i]) >>
\* the one kind of file of the folder that holds as many rule files as a
\* u16 cannot count, each with an empty source
FullCountDir == << RuleFile(<<"r", ".", "y", "a", "r">>, TRUE, <<>>) >>
TwoRuleDir == << RuleFile(<<"a", ".", "y", "a", "r">>, TRUE, <<1>>),
                 RuleFile(<<"b", ".", "y", "a", "r">>, TRUE, <<2>>) >>

\* a signature folder: files lists its kinds of entries in order and the
\* folder holds copies entries of each
RuleDirInputs ==
    {[readable |-> FALSE, files |-> <<>>, copies |-> 1]}
    \cup {[readable |-> TRUE, files |-> f, copies |-> 1] :
            f \in UNION { [1..n -> RuleFiles] : n \in 0..MaxRuleFiles } \cup {BigRuleDir}}

ArgsInputs ==
    [max_file_size : {ArgMaxFileSize}, show_access_errors : BOOLEAN,
     scan_all_files : BOOLEAN, noprocs : BOOLEAN, nofs : BOOLEAN]
DefaultArgs ==
    [max_file_size |-> ArgMaxFileSize, show_access_errors |-> FALSE,
     scan_all_files |-> FALSE, noprocs |-> FALSE, nofs |-> FALSE]

\* the runs explored: every IOC file, every signature folder and every
\* combination of flags, each with the others held at a default, and the
\* start-up on the folder of U16 rule files
RunInputs ==
    {[args |-> DefaultArgs, ioc_file |-> f,
      rule_dir |-> [readable |-> TRUE, files |-> TwoRuleDir, copies |-> 1]] : f \in IocFileInputs}
    \cup {[args |-> DefaultArgs, ioc_file |-> [readable |-> TRUE, lines |-> HeaderedIocFile],
           rule_dir |-> d] : d \in RuleDirInputs}
    \cup {[args |-> a, ioc_file |-> [readable |-> TRUE, lines |-> HeaderedIocFile],
           rule_dir |-> [readable |-> TRUE, files |-> TwoRuleDir, copies |-> 1]] : a \in ArgsInputs}
    \cup {[args |-> [DefaultArgs EXCEPT !.noprocs = TRUE, !.nofs = TRUE],
            ioc_file |-> [readable |-> TRUE, lines |-> HeaderedIocFile],
            rule_dir |-> [readable |-> TRUE, files |-> FullCountDir, copies |-> U16]]}

\* what the engine may return for one item: an error, or some of the rules
EngineResults(rules) ==
    {[ok |-> FALSE, rules |-> <<>>]}
    \cup {[ok |-> TRUE, rules |-> SubSeq(rules, 1, k)] : k \in {0, 1, Len(rules)} \cap 0..Len(rules)}

FileNames == { <<"a", ".", "e", "x", "e">>, <<"n", ".", "t", "x", "t">>, <<".", "s", "h">> }
FileFormats == {"Windows Executable", "Arbitrary Binary Data"}
FileSizes == {ArgMaxFileSize - 1, ArgMaxFileSize, ArgMaxFileSize + 1}
\* the calls of scan_path that can fail on an entry: symlink_metadata or
\* size_on_disk_fast, to_str on an extension that is not UTF-8, fs::metadata
\* or a timestamp, File::open, the memory map
Faults == {"symlink_metadata", "extension", "metadata", "open", "mmap"}

\* the entries a walk may yield
WalkEntries(rules) ==
    {[kind |-> "file", is_file |-> FALSE, name |-> <<"d">>, realsize |-> 0,
      format |-> "Arbitrary Binary Data", fault |-> "none", content |-> "c1",
      results |-> [ok |-> TRUE, rules |-> <<>>]]}
    \cup {[kind |-> "file", is_file |-> TRUE, name |-> n, realsize |-> s, format |-> f,
           fault |-> "none", content |-> "c1", results |-> [ok |-> TRUE, rules |-> rules]] :
            n \in FileNames, s \in FileSizes, f \in FileFormats}
    \cup {[kind |-> "file", is_file |-> TRUE, name |-> <<"a", ".", "e", "x", "e">>,
           realsize |-> ArgMaxFileSize, format |-> f, fault |-> "none", content |-> c,
           results |-> r] :
            f \in FileFormats, c \in {"c1", "c2"}, r \in EngineResults(rules)}
    \cup {[kind |-> "file", is_file |-> TRUE, name |-> <<"a", ".", "e", "x", "e">>,
           realsize |-> ArgMaxFileSize, format |-> f, fault |-> x, content |-> "c1",
           results |-> [ok |-> TRUE, rules |-> <<>>]] :
            f \in FileFormats, x \in Faults}

Processes(rules) ==
    {[kind |-> "process", results |-> r] : r \in EngineResults(rules)}

NoSubject == [kind |-> "none"]

\* ---------------------------------------------------------------- state
VARIABLES
    pc,              \* where main stands
    args,            \* the parsed command line
    ioc_file,        \* ./signatures/iocs/hash-iocs.txt
    rule_dir,        \* ./signatures/yara
    hash_iocs,       \* the Vec<HashIOC> of main
    compiled_rules,  \* the Rules of main (identifiers of the compiled rules)
    remaining,       \* items the running sweep or walk has yet to yield
    subject,         \* the item the loop body ran on last
    res              \* what the loop body did on it

vars == <<pc, args, ioc_file, rule_dir, hash_iocs, compiled_rules, remaining,
          subject, res>>

\* ScanConfig built by main
scan_config ==
    [max_file_size |-> args.max_file_size,
     show_access_errors |-> args.show_access_errors,
     scan_all_types |-> args.scan_all_files]

MODULES == <<"FileScan", "ProcessCheck">>

\* "Evaluate active modules"
IsSkipped(module) ==
    \/ args.noprocs /\ module = "ProcessCheck"
    \/ args.nofs /\ module = "FileScan"
active_modules == SelectSeq(MODULES, LAMBDA module : ~IsSkipped(module))
Contains(seq, x) == \E i \in DOMAIN seq : seq[i] = x

Init ==
    /\ \E run \in RunInputs :
        /\ args = run.args
        /\ ioc_file = run.ioc_file
        /\ rule_dir = run.rule_dir
    /\ pc = "init_iocs"
    /\ hash_iocs = <<>>
    /\ compiled_rules = <<>>
    /\ remaining = 0
    /\ subject = NoSubject
    /\ res = NoResult

\* main: let hash_iocs = initialize_hash_iocs();
InitHashIocs ==
    /\ pc = "init_iocs"
    /\ IF ioc_file.readable
       THEN /\ hash_iocs' = initialize_hash_iocs(ioc_file.lines)
            /\ pc' = "init_rules"
       ELSE /\ pc' = "panic"
            /\ UNCHANGED hash_iocs
    /\ UNCHANGED <<args, ioc_file, rule_dir, compiled_rules, remaining, subject, res>>

\* main: let compiled_rules = initialize_rules(); the source does not fix
\* the build profile, so an overflow of count may panic or wrap
InitRules ==
    /\ pc = "init_rules"
    /\ IF rule_dir.readable
       THEN \E compiled \in { initialize_rules(read_dir(rule_dir), overflow_checks) :
                                 overflow_checks \in BOOLEAN } :
                IF compiled.panicked
                THEN /\ pc' = "panic"
                     /\ UNCHANGED compiled_rules
                ELSE /\ compiled_rules' = compiled.rules
                     /\ pc' = "process_check"
       ELSE /\ pc' = "panic"
            /\ UNCHANGED compiled_rules
    /\ UNCHANGED <<args, ioc_file, rule_dir, hash_iocs, remaining, subject, res>>

\* main: if active_modules.contains("ProcessCheck") { scan_processes(..) }
StartProcessScan ==
    /\ pc = "process_check"
    /\ IF Contains(active_modules, "ProcessCheck")
       THEN /\ pc' = "scan_processes"
            /\ remaining' \in 0..MaxProcs
       ELSE /\ pc' = "file_scan"
            /\ UNCHANGED remaining
    /\ UNCHANGED <<args, ioc_file, rule_dir, hash_iocs, compiled_rules, subject, res>>

\* scan_processes: one turn of the loop over sys.processes()
ScanOneProcess ==
    /\ pc = "scan_processes"
    /\ remaining > 0
    /\ \E process \in Processes(compiled_rules) :
        LET r == ScanProcess(process, scan_config)
        IN /\ subject' = process
           /\ res' = r
           /\ pc' = IF r.outcome = "panic" THEN "panic" ELSE "scan_processes"
    /\ remaining' = remaining - 1
    /\ UNCHANGED <<args, ioc_file, rule_dir, hash_iocs, compiled_rules>>

\* scan_processes returns
EndProcessScan ==
    /\ pc = "scan_processes"
    /\ remaining = 0
    /\ pc' = "file_scan"
    /\ UNCHANGED <<args, ioc_file, rule_dir, hash_iocs, compiled_rules, remaining,
                   subject, res>>

\* main: if active_modules.contains("FileScan") { scan_path(..) }
StartFileScan ==
    /\ pc = "file_scan"
    /\ IF Contains(active_modules, "FileScan")
       THEN /\ pc' = "scan_path"
            /\ remaining' \in 0..MaxEntries
       ELSE /\ pc' = "done"
            /\ UNCHANGED remaining
    /\ UNCHANGED <<args, ioc_file, rule_dir, hash_iocs, compiled_rules, subject, res>>

\* scan_path: one turn of the loop over the walk; the source does not fix
\* the build profile, so an overflow of the score sum may panic or wrap
ScanOneEntry ==
    /\ pc = "scan_path"
    /\ remaining > 0
    /\ \E entry \in WalkEntries(compiled_rules) :
        \E r \in { ScanEntry(entry, scan_config, hash_iocs, overflow_checks) :
                     overflow_checks \in BOOLEAN } :
            /\ subject' = entry
            /\ res' = r
            /\ pc' = IF r.outcome = "panic" THEN "panic" ELSE "scan_path"
    /\ remaining' = remaining - 1
    /\ UNCHANGED <<args, ioc_file, rule_dir, hash_iocs, compiled_rules>>

\* scan_path returns and main logs "LOKI scan finished"
EndFileScan ==
    /\ pc = "scan_path"
    /\ remaining = 0
    /\ pc' = "done"
    /\ UNCHANGED <<args, ioc_file, rule_dir, hash_iocs, compiled_rules, remaining,
                   subject, res>>

Next ==
    \/ InitHashIocs
    \/ InitRules
    \/ StartProcessScan
    \/ ScanOneProcess
    \/ EndProcessScan
    \/ StartFileScan
    \/ ScanOneEntry
    \/ EndFileScan

Spec == Init /\ [][Next]_vars

\* ======================================================================
\* Properties
\* ======================================================================
IsHashMatch(m) == m.message[1] = "HASH match with IOC HASH: "
IsYaraMatch(m) == m.message[1] = "YARA match with rule "
Min(a, b) == IF a < b THEN a ELSE b

\* the file reached the reporting step of scan_path
Reported == subject.kind = "file" /\ res.outcome \in {"reported", "clean"}

\* the stored indicator is of a known hash type and equals the digest of
\* that type of the content
IndicatorOf(content, ioc) ==
    \/ ioc.hash_type = "Md5" /\ ioc.hash_value = md5_compute(content)
    \/ ioc.hash_type = "Sha1" /\ ioc.hash_value = sha1_compute(content)
    \/ ioc.hash_type = "Sha256" /\ ioc.hash_value = sha256_compute(content)

\* C1: the hash matches recorded for a scanned file are exactly the stored
\* indicators of type MD5, SHA1 or SHA256 whose value equals the file's hash
\* of that type, one match per such indicator (up to the cap) and none for
\* any other indicator.
C1_ExactHashMatches ==
    Reported =>
        LET got == SelectSeq(res.matches, IsHashMatch)
            exp == SelectSeq(hash_iocs, LAMBDA ioc : IndicatorOf(subject.content, ioc))
        IN /\ Len(got) = Min(Len(exp), MatchCap)
           /\ \A i \in 1..Len(got) : got[i] = HashGenMatch(exp[i])

\* C2: the match list of an item never holds more than 100 matches, and an
\* item whose list is full is still carried to the reporting step: the
\* further matches are dropped and the Finding is written.
C2_FullListDropsAndReports ==
    /\ Len(res.matches) <= MatchCap
    /\ is_full(res.matches) => res.outcome = "reported"

\* C3: no outcome of one entry of the walk stops the walk: scan_path never
\* ends main while it works on an entry.
C3_WalkNeverAborts == ~(pc = "panic" /\ subject.kind = "file")

\* the file's extension, written with its dot, is an entry of REL_EXTS
HasRelevantExtension(name) ==
    /\ path_extension(name) # <<>>
    /\ (<<".">> \o path_extension(name)) \in REL_EXTS

\* a regular file within the size limit whose size and extension could be
\* read
ReachedTypeFilter ==
    /\ subject.kind = "file"
    /\ subject.is_file
    /\ subject.fault \notin {"symlink_metadata", "extension"}
    /\ subject.realsize <= args.max_file_size

\* C4: a regular file within the size limit passes the type filter exactly
\* when its extension is a relevant extension, or its sniffed format is a
\* relevant format, or scan_all_types is set; a file that does not pass
\* yields no Finding.
C4_TypeAdmission ==
    ReachedTypeFilter =>
        /\ (res.outcome # "type_skipped") <=>
                \/ HasRelevantExtension(subject.name)
                \/ subject.format \in FILE_TYPES
                \/ args.scan_all_files
        /\ res.outcome = "type_skipped" => ~res.finding

\* C5: a file larger than max_file_size is never opened, mapped, hashed or
\* given to the engine and yields no Finding; a file of exactly
\* max_file_size is not skipped for its size.
C5_SizeFilter ==
    (subject.kind = "file" /\ subject.is_file) =>
        /\ subject.realsize > args.max_file_size =>
                /\ ~res.opened /\ ~res.mapped /\ ~res.hashed /\ ~res.engine
                /\ ~res.finding /\ res.matches = <<>>
        /\ subject.realsize = args.max_file_size => res.outcome # "too_big"

C5_Witness ==
    /\ subject.kind = "file" /\ subject.is_file
    /\ subject.realsize > args.max_file_size
    /\ subject.format \in FILE_TYPES
    /\ hash_iocs # <<>> /\ IndicatorOf(subject.content, hash_iocs[1])
    /\ res.outcome = "too_big"

\* a line that is a valid record: at least two ;-separated fields, the
\* first not starting with '#'
ValidLine(line) ==
    /\ \E i \in DOMAIN line : line[i] = ";"
    /\ line[1] # "#"

\* C6: the store loaded from a readable IOC file holds exactly one
\* indicator per valid record of the file, on whatever line it stands.
C6_OneIndicatorPerValidRecord ==
    (ioc_file.readable /\ pc # "init_iocs") =>
        Len(hash_iocs) =
            Cardinality({i \in DOMAIN ioc_file.lines : ValidLine(ioc_file.lines[i])})

\* C7: when the engine returns k matching rules for a file, the file's
\* match list holds k pattern matches (as many as the cap leaves room for),
\* the i-th naming the i-th rule, each with the constant engine score.
C7_OneMatchPerEngineMatch ==
    (Reported /\ subject.results.ok) =>
        LET got == SelectSeq(res.matches, IsYaraMatch)
            hashes == SelectSeq(res.matches, IsHashMatch)
        IN /\ Len(got) = Min(Len(subject.results.rules), MatchCap - Len(hashes))
           /\ \A i \in 1..Len(got) :
                /\ got[i].message[2] = subject.results.rules[i]
                /\ got[i].score = YaraFileScore

\* the arithmetic sum of the scores of a match list
RECURSIVE SumOfScores(_)
SumOfScores(matches) ==
    IF Len(matches) = 0 THEN 0
    ELSE IF Len(matches) = 1 THEN matches[1].score
    ELSE LET m == Len(matches) \div 2
         IN SumOfScores(SubSeq(matches, 1, m))
            + SumOfScores(SubSeq(matches, m + 1, Len(matches)))

\* C8: for every scanned file (one whose match list scan_path has begun to
\* fill), a Finding is written exactly when the match list is not empty,
\* and the total_score it reports is the sum of the scores of the matches
\* kept in the list.
C8_FindingAndTotalScore ==
    (subject.kind = "file" /\ res.hashed) =>
        /\ res.finding <=> (res.matches # <<>>)
        /\ res.finding => res.total_score = SumOfScores(res.matches)

\* C9: while processes remain, the next step of the sweep scans one of
\* them and leaves the sweep running, whatever the engine returned for it
\* or for the one before; the process yields a Finding exactly when its
\* scan returned at least one match, so never when it returned an error.
C9_ProcessSweep ==
    [][ (pc = "scan_processes" /\ remaining > 0) =>
            /\ pc' = "scan_processes"
            /\ remaining' = remaining - 1
            /\ subject'.kind = "process"
            /\ res'.finding <=>
                    (subject'.results.ok /\ Len(subject'.results.rules) > 0) ]_vars

C9_Witness ==
    /\ pc = "scan_processes" /\ remaining > 0
    /\ subject.kind = "process" /\ ~subject.results.ok
    /\ ~res.finding

\* the inputs with which the start-up cannot succeed
StartupFails ==
    \/ ~ioc_file.readable
    \/ ~rule_dir.readable
    \/ ~compile_yara_rules(TestCompileEach(read_dir(rule_dir), <<>>, 0, FALSE).all_rules).ok

\* C10: nothing is scanned and no Finding is written before both the
\* indicator store and the rule set are built, and when the IOC file or the
\* signature folder cannot be read or the composed rule set does not
\* compile, main stops with nothing scanned and no Finding.
C10_StartupOrder ==
    LET fails == StartupFails
    IN /\ (subject # NoSubject \/ res # NoResult
               \/ pc \in {"scan_processes", "file_scan", "scan_path", "done"}) =>
           /\ ~fails
           /\ hash_iocs = initialize_hash_iocs(ioc_file.lines)
           /\ compiled_rules = TestCompileEach(read_dir(rule_dir), <<>>, 0, FALSE).all_rules
       /\ fails =>
           /\ pc \in {"init_iocs", "init_rules", "panic"}
           /\ subject = NoSubject /\ res = NoResult

C10_Witness ==
    /\ pc = "panic" /\ ioc_file.readable /\ rule_dir.readable /\ StartupFails
    /\ subject = NoSubject

\* the diagnostics of a log that report an access or engine error
AccessDiagnostics(log) ==
    SelectSeq(log, LAMBDA l : l.msg \in {"Cannot access file",
                                         "Cannot access file descriptor",
                                         "Error while scanning process memory"})

\* the level show_access_errors asks for
AccessErrorLevel == IF args.show_access_errors THEN "error" ELSE "debug"

\* a regular file that passed the size and type filters
Admitted ==
    /\ ReachedTypeFilter
    /\ TypeAdmitted(path_extension(subject.name), subject.format, scan_config)

\* C11: when the metadata or the timestamps of an admitted file cannot be
\* read, one diagnostic is written, at error level if show_access_errors is
\* set and at debug level otherwise, the file is skipped without a Finding
\* and the walk goes on.
C11_MetadataFailureIsAccessError ==
    (Admitted /\ subject.fault = "metadata") =>
        /\ pc # "panic"
        /\ ~res.finding
        /\ ~res.opened
        /\ Len(AccessDiagnostics(res.log)) = 1
        /\ AccessDiagnostics(res.log)[1].level = AccessErrorLevel

\* C12: an engine scan error, for a file as for a process, writes exactly
\* one diagnostic, at error level when show_access_errors is set and at
\* debug level when it is not; the item gets no engine match and the scan
\* is not aborted.
C12_EngineErrorSeverity ==
    (subject.kind \in {"file", "process"} /\ res.engine /\ ~subject.results.ok) =>
        /\ pc # "panic"
        /\ SelectSeq(res.matches, IsYaraMatch) = <<>>
        /\ Len(AccessDiagnostics(res.log)) = 1
        /\ AccessDiagnostics(res.log)[1].level = AccessErrorLevel

\* the rule files of the folder: its entries with the extension "yar"
YarFiles == SelectSeq(read_dir(rule_dir), IsYarFile)

\* the rule files that compile on their own, in the folder's order
ValidYarFiles == SelectSeq(YarFiles, LAMBDA f : compile_yara_rules(f.src).ok)

\* the sources of a sequence of rule files, one after the other
RECURSIVE ConcatSources(_)
ConcatSources(files) ==
    IF Len(files) = 0 THEN <<>>
    ELSE IF Len(files) = 1 THEN files[1].src
    ELSE LET m == Len(files) \div 2
         IN ConcatSources(SubSeq(files, 1, m))
            \o ConcatSources(SubSeq(files, m + 1, Len(files)))

\* initialize_rules has run on a folder whose rule files can all be read
RulesInitialized ==
    /\ pc \notin {"init_iocs", "init_rules"}
    /\ ioc_file.readable /\ rule_dir.readable
    /\ LET yar == YarFiles IN \A i \in DOMAIN yar : yar[i].readable

\* C13: the composed source initialize_rules compiles is the sources of the
\* rule files that compile on their own, each once and in order, with none
\* of the files that do not; initialize_rules fails exactly when that
\* composition does not compile, never because of the files left out.
C13_CompositeOfValidSources ==
    RulesInitialized =>
        LET composite == ConcatSources(ValidYarFiles)
        IN IF pc = "panic" /\ subject = NoSubject
           THEN ~compile_yara_rules(composite).ok
           ELSE /\ compile_yara_rules(composite).ok
                /\ compiled_rules = composite

\* C14: the total_score of scan_path never overflows its 16 bits: a file's
\* match list holds at most 100 matches, each with the score 100 or 60, so
\* the sum of the scores is at most 10000, below 65536, and total_score is
\* that sum.
C14_TotalScoreNeverOverflows ==
    subject.kind = "file" =>
        /\ Len(res.matches) <= MatchCap
        /\ \A i \in DOMAIN res.matches :
                res.matches[i].score \in {HashScore, YaraFileScore}
        /\ SumOfScores(res.matches) <= MatchCap * HashScore
        /\ SumOfScores(res.matches) < U16
        /\ res.finding => res.total_score = SumOfScores(res.matches)

C14_Witness ==
    /\ subject.kind = "file"
    /\ res.finding
    /\ Len(res.matches) = MatchCap
    /\ res.total_score = MatchCap * HashScore

====
